---- MODULE Spec2Model ----
\* Verification model of the serverless handlers of lambda-cicd-cdk:
\* data_processor.lambda_handler, notification.lambda_handler and
\* health_check.lambda_handler. An invocation starts, issues its store and
\* publish calls one step at a time, and returns; other invocations run
\* between these steps. The key-value table is shared across invocations. Python strings are sequences of
\* one-character strings.
EXTENDS Integers, Sequences, FiniteSets, TLC

\* ---------------------------------------------------------------- bounds
MaxId == 3          \* record ids handed out by uuid4 over a run
MaxLen == 3         \* length of generated data strings

\* ------------------------------------------------------------ constants
\* mutant: one data type is missing from the table
VALID_DATA_TYPES_Mut == <<"text", "json", "csv", "xml">>
VALID_DATA_TYPES == <<"text", "json", "csv", "xml", "binary">>

\* ------------------------------------------------------------- strings
Space == " "
NL == "NL"   \* the newline character

\* the characters for which str.isspace() holds: every one of them is
\* stripped by str.strip() and separates words in str.split(). Control
\* characters are named tokens, other code points are "U+XXXX" tokens.
Whitespace == {"TAB", NL, "VT", "FF", "CR", "U+001C", "U+001D", "U+001E", "U+001F",
               Space, "U+0085", "U+00A0", "U+1680", "U+2000", "U+2001", "U+2002",
               "U+2003", "U+2004", "U+2005", "U+2006", "U+2007", "U+2008", "U+2009",
               "U+200A", "U+2028", "U+2029", "U+202F", "U+205F", "U+3000"}

RECURSIVE AllBlank(_)
AllBlank(s) == IF s = <<>> THEN TRUE ELSE Head(s) \in Whitespace /\ AllBlank(Tail(s))

\* str.lstrip(), str.rstrip(), str.strip()
RECURSIVE LStrip(_)
LStrip(s) == IF s # <<>> /\ Head(s) \in Whitespace THEN LStrip(Tail(s)) ELSE s
RECURSIVE RStrip(_)
RStrip(s) == IF s # <<>> /\ s[Len(s)] \in Whitespace THEN RStrip(SubSeq(s, 1, Len(s) - 1)) ELSE s
Strip(s) == RStrip(LStrip(s))

\* len(s.split())
RECURSIVE WordCount(_)
WordCount(s) ==
  IF s = <<>> THEN 0
  ELSE IF Head(s) \in Whitespace THEN WordCount(Tail(s))
  ELSE LET rest == Tail(s)
       IN IF rest = <<>> \/ Head(rest) \in Whitespace THEN 1 + WordCount(rest)
          ELSE WordCount(rest)

\* ", ".join(seq)
RECURSIVE Join(_)
Join(seq) == IF Len(seq) = 0 THEN ""
             ELSE IF Len(seq) = 1 THEN Head(seq)
             ELSE Head(seq) \o ", " \o Join(Tail(seq))

InSeq(x, seq) == \E i \in 1..Len(seq) : seq[i] = x

\* all strings over {a, blank, newline} of length 0..MaxLen
DataChars == {"a", Space, NL}
Strs == UNION {[1..n -> DataChars] : n \in 0..MaxLen}

\* --------------------------------------------------------- data values
\* JSON values a request body can carry as 'data'
DataVals ==
  {[k |-> "str", s |-> s, n |-> 0] : s \in Strs}
  \cup {[k |-> "list", s |-> <<>>, n |-> n] : n \in 0..2}
  \cup {[k |-> "dict", s |-> <<>>, n |-> n] : n \in 0..1}
  \cup {[k |-> "int", s |-> <<>>, n |-> n] : n \in 0..1}

\* Python truthiness of a data value
Truthy(d) == IF d.k = "str" THEN d.s # <<>> ELSE d.n # 0

\* len(str(data)): str of a list of n ones is "[1, 1]", of {'k': 1} is
\* "{'k': 1}", of a one-digit int is one character
\* mutant: the size counts the stripped string
StrLenMut(d) ==
  CASE d.k = "str"  -> Len(Strip(d.s))
    [] d.k = "list" -> IF d.n = 0 THEN 2 ELSE 3 * d.n
    [] d.k = "dict" -> IF d.n = 0 THEN 2 ELSE 8
    [] d.k = "int"  -> 1

StrLen(d) ==
  CASE d.k = "str"  -> Len(d.s)
    [] d.k = "list" -> IF d.n = 0 THEN 2 ELSE 3 * d.n
    [] d.k = "dict" -> IF d.n = 0 THEN 2 ELSE 8
    [] d.k = "int"  -> 1

\* ----------------------------------------------------- records and calls
NoData == [k |-> "none", s |-> <<>>, n |-> 0]
NoResult == [kind |-> "none", a |-> 0, b |-> 0, type |-> ""]
NoPD == [id |-> 0, type |-> "", status |-> "", size |-> 0]
NoNT == [id |-> 0, recipient |-> <<>>, type |-> <<>>, status |-> "", subject |-> <<>>, hasSubject |-> FALSE]

\* one call on the state store or the messaging collaborator
CallR(op, id, st, ok, data, result, rcp, typ) ==
  [op |-> op, id |-> id, st |-> st, ok |-> ok, data |-> data, result |-> result,
   rcp |-> rcp, typ |-> typ]
Call(op, id, st, ok, data, result) == CallR(op, id, st, ok, data, result, <<>>, <<>>)

Resp(code, err, pd, cnt, nt) ==
  [code |-> code, err |-> err, pd |-> pd, cnt |-> cnt, nt |-> nt, det |-> FALSE, upt |-> 0]

Outcome(route, resp, calls, nid, raised) ==
  [route |-> route, resp |-> resp, calls |-> calls, nid |-> nid, raised |-> raised]

\* process_data(data, data_type): the result summary
\* mutant: the string summary counts the stripped string
process_dataMut(d, t) ==
  CASE d.k = "str"  -> [kind |-> "original_length", a |-> Len(Strip(d.s)), b |-> WordCount(d.s), type |-> t]
    [] d.k = "dict" -> [kind |-> "key_count", a |-> d.n, b |-> 0, type |-> t]
    [] d.k = "list" -> [kind |-> "item_count", a |-> d.n, b |-> 0, type |-> t]
    [] OTHER        -> [kind |-> "data_type", a |-> 0, b |-> 0, type |-> t]

process_data(d, t) ==
  CASE d.k = "str"  -> [kind |-> "original_length", a |-> Len(d.s), b |-> WordCount(d.s), type |-> t]
    [] d.k = "dict" -> [kind |-> "key_count", a |-> d.n, b |-> 0, type |-> t]
    [] d.k = "list" -> [kind |-> "item_count", a |-> d.n, b |-> 0, type |-> t]
    [] OTHER        -> [kind |-> "data_type", a |-> 0, b |-> 0, type |-> t]

\* f: the set of store calls of an invocation that raise, by number (each
\* call can fail independently); 0 \in f: client construction raises
Faults(k, f) == k \in f

\* ------------------------------------------ data_processor.handle_api_request
\* body: [null, hasData, data, type]; type is "absent" when the key is missing
BodyIsEmpty(b) == b.null \/ (~b.hasData /\ b.type = "absent")

\* mutant: whitespace-only strings are not rejected
DataIsEmptyMut(d) == ~Truthy(d)

DataIsEmpty(d) == ~Truthy(d) \/ (d.k = "str" /\ Strip(d.s) = <<>>)

DataTypeOf(b) == IF b.type = "absent" THEN "text" ELSE b.type

InvalidTypeMsg == "Invalid data type. Must be one of: " \o Join(VALID_DATA_TYPES)

\* utils.parse_json_body: json.loads of event['body']; a null body gives {}
EmptyDPBody == [null |-> FALSE, hasData |-> FALSE, data |-> NoData, type |-> "absent"]
parse_json_body(b) == IF b.null THEN EmptyDPBody ELSE b

DPFail500 == Resp(500, "Failed to process data", NoPD, 0, NoNT)

\* mutant: only a null body is rejected
MissingDataMut(b) == b.null
\* not body or 'data' not in body
MissingData(b) == BodyIsEmpty(b) \/ ~b.hasData

\* mutant: the type is validated only after the job has been stored
DPApiMut(raw, f, id0) ==
  LET b == parse_json_body(raw) IN
  IF MissingData(b)
  THEN Outcome("api", Resp(400, "Request body must contain \"data\" field", NoPD, 0, NoNT), <<>>, id0, FALSE)
  ELSE IF ~b.hasData THEN Outcome("api", DPFail500, <<>>, id0, FALSE)
  ELSE IF DataIsEmpty(b.data)
  THEN Outcome("api", Resp(400, "Data cannot be empty", NoPD, 0, NoNT), <<>>, id0, FALSE)
  ELSE
    LET t   == DataTypeOf(b)
        put == Call("put", id0, "queued", ~Faults(1, f), b.data, NoResult)
        upd == Call("update", id0, "completed", ~Faults(2, f), NoData, process_data(b.data, t))
    IN IF ~put.ok THEN Outcome("api", DPFail500, <<put>>, id0 + 1, FALSE)
       ELSE IF ~InSeq(t, VALID_DATA_TYPES)
       THEN Outcome("api", Resp(400, InvalidTypeMsg, NoPD, 0, NoNT), <<put>>, id0 + 1, FALSE)
       ELSE IF ~upd.ok THEN Outcome("api", DPFail500, <<put, upd>>, id0 + 1, FALSE)
       ELSE Outcome("api",
              Resp(200, "", [id |-> id0, type |-> t, status |-> "processed", size |-> StrLen(b.data)], 0, NoNT),
              <<put, upd>>, id0 + 1, FALSE)

\* mutant: a failed completion update marks the job failed
DPApiMut2(raw, f, id0) ==
  LET b == parse_json_body(raw) IN
  IF MissingData(b)
  THEN Outcome("api", Resp(400, "Request body must contain \"data\" field", NoPD, 0, NoNT), <<>>, id0, FALSE)
  ELSE IF ~b.hasData THEN Outcome("api", DPFail500, <<>>, id0, FALSE)
  ELSE IF DataIsEmpty(b.data)
  THEN Outcome("api", Resp(400, "Data cannot be empty", NoPD, 0, NoNT), <<>>, id0, FALSE)
  ELSE IF ~InSeq(DataTypeOf(b), VALID_DATA_TYPES)
  THEN Outcome("api", Resp(400, InvalidTypeMsg, NoPD, 0, NoNT), <<>>, id0, FALSE)
  ELSE
    LET t   == DataTypeOf(b)
        put == Call("put", id0, "queued", ~Faults(1, f), b.data, NoResult)
        upd == Call("update", id0, "completed", ~Faults(2, f), NoData, process_data(b.data, t))
        fl  == Call("update", id0, "failed", ~Faults(3, f), NoData, NoResult)
    IN IF ~put.ok THEN Outcome("api", DPFail500, <<put>>, id0 + 1, FALSE)
       ELSE IF ~upd.ok THEN Outcome("api", DPFail500, <<put, upd, fl>>, id0 + 1, FALSE)
       ELSE Outcome("api",
              Resp(200, "", [id |-> id0, type |-> t, status |-> "processed", size |-> StrLen(b.data)], 0, NoNT),
              <<put, upd>>, id0 + 1, FALSE)

DPApi(raw, f, id0) ==
  LET b == parse_json_body(raw) IN
  IF MissingData(b)
  THEN Outcome("api", Resp(400, "Request body must contain \"data\" field", NoPD, 0, NoNT), <<>>, id0, FALSE)
  ELSE IF ~b.hasData THEN Outcome("api", DPFail500, <<>>, id0, FALSE)    \* body['data']: KeyError
  ELSE IF DataIsEmpty(b.data)
  THEN Outcome("api", Resp(400, "Data cannot be empty", NoPD, 0, NoNT), <<>>, id0, FALSE)
  ELSE IF ~InSeq(DataTypeOf(b), VALID_DATA_TYPES)
  THEN Outcome("api", Resp(400, InvalidTypeMsg, NoPD, 0, NoNT), <<>>, id0, FALSE)
  ELSE
    LET t   == DataTypeOf(b)
        put == Call("put", id0, "queued", ~Faults(1, f), b.data, NoResult)
        upd == Call("update", id0, "completed", ~Faults(2, f), NoData, process_data(b.data, t))
    IN IF ~put.ok THEN Outcome("api", DPFail500, <<put>>, id0 + 1, FALSE)
       ELSE IF ~upd.ok THEN Outcome("api", DPFail500, <<put, upd>>, id0 + 1, FALSE)
       ELSE Outcome("api",
              Resp(200, "", [id |-> id0, type |-> t, status |-> "processed", size |-> StrLen(b.data)], 0, NoNT),
              <<put, upd>>, id0 + 1, FALSE)

\* ------------------------------------------- data_processor.handle_s3_event
\* an S3 record: wf = it carries s3.bucket.name, s3.object.key and eventName;
\* head = outcome of s3_client.head_object
\* mutant: the record fields are read inside the per-record try block
S3StepMut2(r, acc, f) ==
  IF ~r.wf THEN acc
  ELSE
    LET id  == acc.nid
        k1  == Len(acc.calls) + 1
        put == Call("put", id, "processing", ~Faults(k1, f), NoData, NoResult)
        fl(k) == Call("update", id, "failed", ~Faults(k, f), NoData, NoResult)
        cmp == Call("update", id, "completed", ~Faults(k1 + 1, f), NoData, NoResult)
    IN IF ~put.ok
       THEN [acc EXCEPT !.calls = @ \o <<put, fl(k1 + 1)>>, !.nid = id + 1,
                        !.abort = ~fl(k1 + 1).ok]
       ELSE IF r.head = "fail"
       THEN [acc EXCEPT !.calls = @ \o <<put, fl(k1 + 1)>>, !.nid = id + 1,
                        !.abort = ~fl(k1 + 1).ok]
       ELSE IF cmp.ok
       THEN [acc EXCEPT !.calls = @ \o <<put, cmp>>, !.nid = id + 1, !.proc = @ + 1]
       ELSE [acc EXCEPT !.calls = @ \o <<put, cmp, fl(k1 + 2)>>, !.nid = id + 1,
                        !.abort = ~fl(k1 + 2).ok]

\* mutant: a fault of the failed-status update is swallowed
S3StepMut3(r, acc, f) ==
  IF ~r.wf THEN [acc EXCEPT !.abort = TRUE]
  ELSE
    LET id  == acc.nid
        k1  == Len(acc.calls) + 1
        put == Call("put", id, "processing", ~Faults(k1, f), NoData, NoResult)
        fl(k) == Call("update", id, "failed", ~Faults(k, f), NoData, NoResult)
        cmp == Call("update", id, "completed", ~Faults(k1 + 1, f), NoData, NoResult)
    IN IF ~put.ok
       THEN [acc EXCEPT !.calls = @ \o <<put, fl(k1 + 1)>>, !.nid = id + 1,
                        !.abort = FALSE]
       ELSE IF r.head = "fail"
       THEN [acc EXCEPT !.calls = @ \o <<put, fl(k1 + 1)>>, !.nid = id + 1,
                        !.abort = FALSE]
       ELSE IF cmp.ok
       THEN [acc EXCEPT !.calls = @ \o <<put, cmp>>, !.nid = id + 1, !.proc = @ + 1]
       ELSE [acc EXCEPT !.calls = @ \o <<put, cmp, fl(k1 + 2)>>, !.nid = id + 1,
                        !.abort = FALSE]

\* mutant: one job id is generated for the whole batch
S3StepMut4(r, acc, f) ==
  IF ~r.wf THEN [acc EXCEPT !.abort = TRUE]
  ELSE
    LET id  == acc.nid
        k1  == Len(acc.calls) + 1
        put == Call("put", id, "processing", ~Faults(k1, f), NoData, NoResult)
        fl(k) == Call("update", id, "failed", ~Faults(k, f), NoData, NoResult)
        cmp == Call("update", id, "completed", ~Faults(k1 + 1, f), NoData, NoResult)
    IN IF ~put.ok
       THEN [acc EXCEPT !.calls = @ \o <<put, fl(k1 + 1)>>, !.nid = acc.nid,
                        !.abort = ~fl(k1 + 1).ok]
       ELSE IF r.head = "fail"
       THEN [acc EXCEPT !.calls = @ \o <<put, fl(k1 + 1)>>, !.nid = acc.nid,
                        !.abort = ~fl(k1 + 1).ok]
       ELSE IF cmp.ok
       THEN [acc EXCEPT !.calls = @ \o <<put, cmp>>, !.nid = acc.nid, !.proc = @ + 1]
       ELSE [acc EXCEPT !.calls = @ \o <<put, cmp, fl(k1 + 2)>>, !.nid = acc.nid,
                        !.abort = ~fl(k1 + 2).ok]

S3Step(r, acc, f) ==
  IF ~r.wf THEN [acc EXCEPT !.abort = TRUE]
  ELSE
    LET id  == acc.nid
        k1  == Len(acc.calls) + 1
        put == Call("put", id, "processing", ~Faults(k1, f), NoData, NoResult)
        fl(k) == Call("update", id, "failed", ~Faults(k, f), NoData, NoResult)
        cmp == Call("update", id, "completed", ~Faults(k1 + 1, f), NoData, NoResult)
    IN IF ~put.ok
       THEN [acc EXCEPT !.calls = @ \o <<put, fl(k1 + 1)>>, !.nid = id + 1,
                        !.abort = ~fl(k1 + 1).ok]
       ELSE IF r.head = "fail"
       THEN [acc EXCEPT !.calls = @ \o <<put, fl(k1 + 1)>>, !.nid = id + 1,
                        !.abort = ~fl(k1 + 1).ok]
       ELSE IF cmp.ok
       THEN [acc EXCEPT !.calls = @ \o <<put, cmp>>, !.nid = id + 1, !.proc = @ + 1]
       ELSE [acc EXCEPT !.calls = @ \o <<put, cmp, fl(k1 + 2)>>, !.nid = id + 1,
                        !.abort = ~fl(k1 + 2).ok]

RECURSIVE S3Loop(_, _, _, _)
S3Loop(recs, i, acc, f) ==
  IF i > Len(recs) \/ acc.abort THEN acc
  ELSE S3Loop(recs, i + 1, S3Step(recs[i], acc, f), f)

handle_s3_event(recs, f, id0) ==
  LET acc == S3Loop(recs, 1, [proc |-> 0, calls |-> <<>>, nid |-> id0, abort |-> FALSE], f)
  IN IF acc.abort
     THEN Outcome("batch", Resp(500, "Failed to process S3 event", NoPD, 0, NoNT), acc.calls, acc.nid, FALSE)
     ELSE Outcome("batch", Resp(200, "", NoPD, acc.proc, NoNT), acc.calls, acc.nid, FALSE)

\* --------------------------------------------- data_processor.lambda_handler
\* ev: [none, hasRecs, recs, hm, res, body]; 0 \in f: boto3.client / table
\* manager construction raises
Internal500 == Resp(500, "Internal server error", NoPD, 0, NoNT)

\* utils.log_event: a print of the event; it returns normally
log_event_raises(ev) == FALSE

\* mutant: a present but empty Records list is taken as a batch
DPHandlerMut(ev, f, id0) ==
  IF log_event_raises(ev) THEN Outcome("fault", Internal500, <<>>, id0, TRUE)
  ELSE IF ev.none \/ 0 \in f THEN Outcome("fault", Internal500, <<>>, id0, FALSE)
  ELSE IF ev.hasRecs THEN handle_s3_event(ev.recs, f, id0)
  ELSE IF ev.hm # "absent"
  THEN IF ev.res = "/process" /\ ev.hm = "POST" THEN DPApi(ev.body, f, id0)
       ELSE Outcome("notfound", Resp(404, "Resource not found", NoPD, 0, NoNT), <<>>, id0, FALSE)
  ELSE Outcome("unknown", Resp(400, "Unknown event type", NoPD, 0, NoNT), <<>>, id0, FALSE)

DPHandler(ev, f, id0) ==
  IF log_event_raises(ev) THEN Outcome("fault", Internal500, <<>>, id0, TRUE)
  ELSE IF ev.none \/ 0 \in f THEN Outcome("fault", Internal500, <<>>, id0, FALSE)
  ELSE IF ev.hasRecs /\ Len(ev.recs) > 0 THEN handle_s3_event(ev.recs, f, id0)
  ELSE IF ev.hm # "absent"
  THEN IF ev.res = "/process" /\ ev.hm = "POST" THEN DPApi(ev.body, f, id0)
       ELSE Outcome("notfound", Resp(404, "Resource not found", NoPD, 0, NoNT), <<>>, id0, FALSE)
  ELSE Outcome("unknown", Resp(400, "Unknown event type", NoPD, 0, NoNT), <<>>, id0, FALSE)


\* ------------------------------------------------------- regex validators
\* [a-zA-Z]
Letters == {"a", "b", "c", "d", "e", "f", "g", "h", "i", "j", "k", "l", "m",
            "n", "o", "p", "q", "r", "s", "t", "u", "v", "w", "x", "y", "z",
            "A", "B", "C", "D", "E", "F", "G", "H", "I", "J", "K", "L", "M",
            "N", "O", "P", "Q", "R", "S", "T", "U", "V", "W", "X", "Y", "Z"}
\* [0-9] and [1-9]
AsciiDigits == {"0", "1", "2", "3", "4", "5", "6", "7", "8", "9"}
NonZeroDigits == AsciiDigits \ {"0"}

\* "U+XXXX" token of a code point
HexDigit(d) == <<"0", "1", "2", "3", "4", "5", "6", "7", "8", "9", "A", "B", "C", "D", "E", "F">>[d + 1]
RECURSIVE Hex(_)
Hex(n) == IF n < 16 THEN HexDigit(n) ELSE Hex(n \div 16) \o HexDigit(n % 16)
RECURSIVE Pad4(_)
Pad4(h) == IF Len(h) >= 4 THEN h ELSE Pad4("0" \o h)
CodePoint(n) == "U+" \o Pad4(Hex(n))

\* first code point of every block of ten Unicode decimal digits (category
\* Nd) after 0-9
NdBases == {1632, 1776, 1984, 2406, 2534, 2662, 2790, 2918, 3046, 3174, 3302,
            3430, 3558, 3664, 3792, 3872, 4160, 4240, 6112, 6160, 6470, 6608,
            6784, 6800, 6992, 7088, 7232, 7248, 42528, 43216, 43264, 43472,
            43504, 43600, 44016, 65296, 66720, 68912, 69734, 69872, 69942,
            70096, 70384, 70736, 70864, 71248, 71360, 71472, 71904, 72016,
            72784, 73040, 73120, 92768, 92864, 93008, 120782, 120792, 120802,
            120812, 120822, 123200, 123632, 125264, 130032}
\* \d of a str pattern: every Unicode decimal digit
Digits == AsciiDigits \cup {CodePoint(b + k) : b \in NdBases, k \in 0..9}
AllIn(s, S) == \A i \in 1..Len(s) : s[i] \in S
LocalChars == Letters \cup AsciiDigits \cup {".", "_", "%", "+", "-"}
DomainChars == Letters \cup AsciiDigits \cup {".", "-"}

\* [a-zA-Z0-9._%+-]+@[a-zA-Z0-9.-]+\.[a-zA-Z]{2,} matching the whole of s
EmailBody(s) ==
  \E i \in 2..Len(s), j \in 1..Len(s) :
    /\ i + 1 < j /\ j + 2 <= Len(s)
    /\ s[i] = "@" /\ s[j] = "."
    /\ AllIn(SubSeq(s, 1, i - 1), LocalChars)
    /\ AllIn(SubSeq(s, i + 1, j - 1), DomainChars)
    /\ AllIn(SubSeq(s, j + 1, Len(s)), Letters)

\* re.match(pattern, s) with a pattern ending in $: $ also matches just before
\* a final newline
EndsWithNL(s) == Len(s) >= 1 /\ s[Len(s)] = NL
Chomp(s) == SubSeq(s, 1, Len(s) - 1)

is_valid_email(s) == EmailBody(s) \/ (EndsWithNL(s) /\ EmailBody(Chomp(s)))

\* \+?[1-9]\d{1,14} matching the whole of s
PhoneBody(s) ==
  LET p == IF s # <<>> /\ Head(s) = "+" THEN Tail(s) ELSE s
  IN /\ Len(p) >= 2 /\ Len(p) <= 15
     /\ p[1] \in NonZeroDigits
     /\ AllIn(p, Digits)

is_valid_phone(s) == PhoneBody(s) \/ (EndsWithNL(s) /\ PhoneBody(Chomp(s)))

\* ----------------------------------------- notification.handle_api_request
\* body: [null, empty, rnum, rcp, msg, typ, subj, subjKey]; missing keys are <<>>
\* (body.get(k, '') gives ''), rnum: recipient is a JSON number; typ is a
\* sequence of blanks and words
VALID_NOTIFICATION_TYPES == <<<<"email">>, <<"sms">>>>
InvalidNTypeMsg == "Invalid type. Must be one of: email, sms"

\* send_email_notification(recipient, subject, message, sns_client) and
\* send_sms_notification(phone_number, message, sns_client) are called with
\* one argument fewer than they take
EmailParams == 4
EmailArgs == 3
SmsParams == 3
SmsArgs == 2

\* the send step: [ok, publish calls]; pf = the publish call raises
\* mutant: the send is called correctly but its result is ignored
SendOutcomeMut(id, t, pf) ==
  [ok |-> TRUE, calls |-> <<Call("publish", id, IF t = <<"email">> THEN "email" ELSE "sms", ~pf, NoData, NoResult)>>]

SendOutcome(id, t, pf) ==
  LET params == IF t = <<"email">> THEN EmailParams ELSE SmsParams
      args   == IF t = <<"email">> THEN EmailArgs ELSE SmsArgs
      tag    == IF t = <<"email">> THEN "email" ELSE "sms"
  IN IF args # params
     THEN [ok |-> FALSE, calls |-> <<>>]            \* TypeError, caught
     ELSE [ok |-> ~pf, calls |-> <<Call("publish", id, tag, ~pf, NoData, NoResult)>>]

ErrResult == [kind |-> "error", a |-> 0, b |-> 0, type |-> ""]
\* mutant: the fault message is returned to the caller
NTFail500Mut == Resp(500, "Database error", NoPD, 0, NoNT)
NTFail500 == Resp(500, "Failed to send notification", NoPD, 0, NoNT)

NTApi(b, f, pf, id0) ==
  IF b.null \/ b.empty
  THEN Outcome("api", Resp(400, "Request body is required", NoPD, 0, NoNT), <<>>, id0, FALSE)
  ELSE IF b.rnum THEN Outcome("api", NTFail500, <<>>, id0, FALSE)   \* int has no strip()
  ELSE
  LET r == Strip(b.rcp)
      m == Strip(b.msg)
      t == Strip(b.typ)
      s == Strip(b.subj)
      bad(e) == Outcome("api", Resp(400, e, NoPD, 0, NoNT), <<>>, id0, FALSE)
  IN IF r = <<>> THEN bad("Recipient is required")
     ELSE IF m = <<>> THEN bad("Message is required")
     ELSE IF t = <<>> THEN bad("Type is required")
     ELSE IF ~InSeq(t, VALID_NOTIFICATION_TYPES) THEN bad(InvalidNTypeMsg)
     ELSE IF t = <<"email">> /\ ~is_valid_email(r) THEN bad("Invalid email format")
     ELSE IF t = <<"sms">> /\ ~is_valid_phone(r) THEN bad("Invalid phone number format")
     ELSE
       LET snd    == SendOutcome(id0, t, pf)
           status == IF snd.ok THEN "sent" ELSE "failed"
           put    == CallR("put", id0, status, ~Faults(1, f), NoData,
                           IF snd.ok THEN NoResult ELSE ErrResult, r, t)
           nt     == [id |-> id0, recipient |-> r, type |-> t, status |-> status,
                      subject |-> s, hasSubject |-> s # <<>>]
       IN IF ~put.ok THEN Outcome("api", NTFail500, snd.calls \o <<put>>, id0 + 1, FALSE)
          ELSE Outcome("api", Resp(200, "", NoPD, 0, nt), snd.calls \o <<put>>, id0 + 1, FALSE)

\* ------------------------------------------ notification.handle_sns_event
\* an SNS record: wf = Sns carries Message, TopicArn and MessageId; msg = the
\* Message text: "obj" a JSON object with recipient and type, "objempty" a
\* JSON object without them, "num" a JSON number, "text" not JSON
SnsRecipient == <<"r", "@", "x", ".", "i", "o">>
SnsType == <<"email">>
Unknown == <<"unknown">>
SnsDefault == <<"sns">>

\* json.loads(message) then .get(...); any exception gives the defaults
\* mutant: only a non-JSON body falls back to unknown
ParsedRecipientMut(msg) == IF msg = "text" THEN Unknown ELSE SnsRecipient
ParsedRecipient(msg) == IF msg = "obj" THEN SnsRecipient ELSE Unknown
ParsedType(msg) == IF msg = "obj" THEN SnsType ELSE SnsDefault

\* mutant: a record is counted even when its update raises
SnsStepMut(r, acc, f) ==
  IF ~r.wf THEN acc
  ELSE
    LET id  == acc.nid
        k1  == Len(acc.calls) + 1
        put == CallR("put", id, "received", ~Faults(k1, f), NoData, NoResult,
                     ParsedRecipient(r.msg), ParsedType(r.msg))
        upd == Call("update", id, "processed", ~Faults(k1 + 1, f), NoData, NoResult)
    IN IF ~put.ok THEN [acc EXCEPT !.calls = @ \o <<put>>, !.nid = id + 1]
       ELSE [acc EXCEPT !.calls = @ \o <<put, upd>>, !.nid = id + 1, !.proc = @ + 1]

SnsStep(r, acc, f) ==
  IF ~r.wf THEN acc
  ELSE
    LET id  == acc.nid
        k1  == Len(acc.calls) + 1
        put == CallR("put", id, "received", ~Faults(k1, f), NoData, NoResult,
                     ParsedRecipient(r.msg), ParsedType(r.msg))
        upd == Call("update", id, "processed", ~Faults(k1 + 1, f), NoData, NoResult)
    IN IF ~put.ok THEN [acc EXCEPT !.calls = @ \o <<put>>, !.nid = id + 1]
       ELSE IF ~upd.ok THEN [acc EXCEPT !.calls = @ \o <<put, upd>>, !.nid = id + 1]
       ELSE [acc EXCEPT !.calls = @ \o <<put, upd>>, !.nid = id + 1, !.proc = @ + 1]

RECURSIVE SnsLoop(_, _, _, _)
SnsLoop(recs, i, acc, f) ==
  IF i > Len(recs) THEN acc
  ELSE SnsLoop(recs, i + 1, SnsStep(recs[i], acc, f), f)

handle_sns_event(recs, f, id0) ==
  LET acc == SnsLoop(recs, 1, [proc |-> 0, calls |-> <<>>, nid |-> id0, abort |-> FALSE], f)
  IN Outcome("batch", Resp(200, "", NoPD, acc.proc, NoNT), acc.calls, acc.nid, FALSE)

\* --------------------------------------------- notification.lambda_handler
NTHandler(ev, f, pf, id0) ==
  IF log_event_raises(ev) THEN Outcome("fault", Internal500, <<>>, id0, TRUE)
  ELSE IF ev.none \/ 0 \in f THEN Outcome("fault", Internal500, <<>>, id0, FALSE)
  ELSE IF ev.hasRecs /\ Len(ev.recs) > 0 THEN handle_sns_event(ev.recs, f, id0)
  ELSE IF ev.hm # "absent"
  THEN IF ev.res = "/notify" /\ ev.hm = "POST" THEN NTApi(ev.body, f, pf, id0)
       ELSE Outcome("notfound", Resp(404, "Resource not found", NoPD, 0, NoNT), <<>>, id0, FALSE)
  ELSE Outcome("unknown", Resp(400, "Unknown event type", NoPD, 0, NoNT), <<>>, id0, FALSE)

\* ----------------------------------------------- health_check.lambda_handler
\* ev: [none, hm, res, qs]; qs: "absent" | "null" | "details" (details=true) |
\* "nondict" (a non-empty value without .get) |
\* "nodetails"; ctx: [hasRem, rem]; ef: obtaining an enrichment value raises
DefaultRemainingMs == 30000
TimeoutMs == 300000

\* f"{(300000 - remaining) / 1000:.2f}" in hundredths of a second. The
\* division gives the double nearest to x/1000; :.2f rounds that double to
\* the nearest hundredth, ties to even. Only x/10 = n + 1/2 is close to a
\* tie: it is an exact tie when x/1000 is dyadic (125 divides x), otherwise
\* the rounding of x/1000 to 53 significant bits decides the direction, and
\* that is the bit after the 53rd significant bit of x/1000 (the tail after
\* it is non-zero since x/1000 is not dyadic). A negative value prints as
\* "-0.00" when it rounds to zero; hundredths are 0 then.
RECURSIVE FracBit(_, _)
FracBit(r, k) == IF k = 1 THEN (IF 2 * r >= 1000 THEN 1 ELSE 0) ELSE FracBit((2 * r) % 1000, k - 1)
RECURSIVE FirstOne(_, _)
FirstOne(r, k) == IF 2 * r >= 1000 THEN k ELSE FirstOne((2 * r) % 1000, k + 1)
RECURSIVE BitLen(_)
BitLen(n) == IF n = 0 THEN 0 ELSE 1 + BitLen(n \div 2)
DoubleAbove(a) ==
  LET i == a \div 1000
      r == a % 1000
  IN FracBit(r, IF i > 0 THEN 54 - BitLen(i) ELSE FirstOne(r, 1) + 53) = 1
MagHundredths(a) ==
  IF a % 10 # 5 THEN (a + 5) \div 10
  ELSE IF a % 125 = 0 THEN a \div 10 + (IF (a \div 10) % 2 = 1 THEN 1 ELSE 0)
  ELSE a \div 10 + (IF DoubleAbove(a) THEN 1 ELSE 0)

\* mutant: uptime in whole seconds
UptimeHundredthsMut(ms) == (TimeoutMs - ms) \div 1000
UptimeHundredths(ms) ==
  LET x == TimeoutMs - ms
  IN IF x >= 0 THEN MagHundredths(x) ELSE 0 - MagHundredths(0 - x)

handle_health_check(ev, ctx, ef, id0) ==
  LET ms == IF ctx.hasRem THEN ctx.rem ELSE DefaultRemainingMs
      det == ev.qs = "details"
  IN IF ctx.hasRem /\ ctx.raises THEN Outcome("fault", Internal500, <<>>, id0, FALSE)
     ELSE IF ev.qs = "nondict" THEN Outcome("fault", Internal500, <<>>, id0, FALSE)   \* .get on a list
     ELSE IF det /\ ef THEN Outcome("fault", Internal500, <<>>, id0, FALSE)
     ELSE Outcome("api", [Resp(200, "", NoPD, 0, NoNT) EXCEPT !.det = det,
                                                           !.upt = UptimeHundredths(ms)],
                  <<>>, id0, FALSE)

\* mutant: the event is read outside the try block
HCHandlerMut(ev, ctx, ef, id0) ==
  IF ev.none THEN Outcome("fault", Internal500, <<>>, id0, TRUE)
  ELSE IF ev.res = "/health" /\ ev.hm = "GET" THEN handle_health_check(ev, ctx, ef, id0)
  ELSE Outcome("notfound", Resp(404, "Resource not found", NoPD, 0, NoNT), <<>>, id0, FALSE)

HCHandler(ev, ctx, ef, id0) ==
  IF ev.none THEN Outcome("fault", Internal500, <<>>, id0, FALSE)   \* None.get raises
  ELSE IF ev.res = "/health" /\ ev.hm = "GET" THEN handle_health_check(ev, ctx, ef, id0)
  ELSE Outcome("notfound", Resp(404, "Resource not found", NoPD, 0, NoNT), <<>>, id0, FALSE)

\* ------------------------------------- user_management.lambda_handler (GET)
\* ev: [op, gid]; op "create": POST /users; op "get": GET /users/{id} with
\* gid = 0 when pathParameters is missing
\* mutant: a missing id is looked up like any other
UMHandlerMut(ev, users, id0) ==
  IF ev.op = "create"
  THEN Outcome("api", Resp(201, "", NoPD, 0, NoNT), <<Call("put", id0, "active", TRUE, NoData, NoResult)>>, id0 + 1, FALSE)
  ELSE IF ev.gid \notin users THEN Outcome("api", Resp(404, "User not found", NoPD, 0, NoNT), <<>>, id0, FALSE)
  ELSE Outcome("api", Resp(200, "", NoPD, 0, NoNT), <<>>, id0, FALSE)

UMHandler(ev, users, id0) ==
  IF ev.op = "create"
  THEN Outcome("api", Resp(201, "", NoPD, 0, NoNT), <<Call("put", id0, "active", TRUE, NoData, NoResult)>>, id0 + 1, FALSE)
  ELSE IF ev.gid = 0 THEN Outcome("api", Resp(400, "User ID is required", NoPD, 0, NoNT), <<>>, id0, FALSE)
  ELSE IF ev.gid \notin users THEN Outcome("api", Resp(404, "User not found", NoPD, 0, NoNT), <<>>, id0, FALSE)
  ELSE Outcome("api", Resp(200, "", NoPD, 0, NoNT), <<>>, id0, FALSE)

\* ------------------------------------------------ state store (DynamoDBManager)
\* put_item writes the record; update_item patches the status by key (and,
\* like DynamoDB UpdateItem, creates the item when the key is absent)
ApplyCall(st, c) == IF c.ok /\ c.op \in {"put", "update"} THEN [st EXCEPT ![c.id] = c.st] ELSE st

RECURSIVE ApplyCalls(_, _)
ApplyCalls(st, calls) == IF calls = <<>> THEN st ELSE ApplyCalls(ApplyCall(st, Head(calls)), Tail(calls))

CountPut(pc, c) == IF c.op = "put" THEN [pc EXCEPT ![c.id] = @ + 1] ELSE pc

RECURSIVE CountPuts(_, _)
CountPuts(pc, calls) == IF calls = <<>> THEN pc ELSE CountPuts(CountPut(pc, Head(calls)), Tail(calls))

\* ------------------------------------------------------------ inputs
NullDPBody == [null |-> TRUE, hasData |-> FALSE, data |-> NoData, type |-> "absent"]
DPTypes == {"absent", "text", "csv", "binary", "bad"}
DPBodies ==
  {NullDPBody}
  \cup {[null |-> FALSE, hasData |-> FALSE, data |-> NoData, type |-> t] : t \in {"absent", "text"}}
  \cup {[null |-> FALSE, hasData |-> TRUE, data |-> d, type |-> t] : d \in DataVals, t \in DPTypes}
SampleDPBody == [null |-> FALSE, hasData |-> TRUE, data |-> [k |-> "str", s |-> <<"a">>, n |-> 0], type |-> "text"]

S3Recs == {[wf |-> w, head |-> h] : w \in BOOLEAN, h \in {"ok", "fail"}}
MaxRecs == 2
RecSeqs(R) == UNION {[1..n -> R] : n \in 1..MaxRecs}

Methods == {"POST", "GET", "DELETE", "absent"}
Resources == {"/process", "/notify", "/health", "absent"}

NoneDPEvent == [none |-> TRUE, hasRecs |-> FALSE, recs |-> <<>>, hm |-> "absent", res |-> "absent", body |-> NullDPBody]
DPEvents ==
  {NoneDPEvent}
  \cup {[none |-> FALSE, hasRecs |-> r, recs |-> <<>>, hm |-> "POST", res |-> "/process", body |-> b] :
          r \in BOOLEAN, b \in DPBodies}
  \cup {[none |-> FALSE, hasRecs |-> r, recs |-> <<>>, hm |-> m, res |-> x, body |-> SampleDPBody] :
          r \in BOOLEAN, m \in Methods, x \in Resources}
  \cup {[none |-> FALSE, hasRecs |-> TRUE, recs |-> rs, hm |-> m, res |-> "/process", body |-> SampleDPBody] :
          rs \in RecSeqs(S3Recs), m \in {"POST", "absent"}}

\* the subject: key present or not, and its string (<<>> when missing)
NoSubj == [key |-> FALSE, s |-> <<>>]
Subj(s) == [key |-> TRUE, s |-> s]
NTBody(rn, r, m, t, sj) == [null |-> FALSE, empty |-> FALSE, rnum |-> rn, rcp |-> r, msg |-> m, typ |-> t,
                            subj |-> sj.s, subjKey |-> sj.key]
NullNTBody == [NTBody(FALSE, <<>>, <<>>, <<>>, NoSubj) EXCEPT !.null = TRUE]
EmptyNTBody == [NTBody(FALSE, <<>>, <<>>, <<>>, NoSubj) EXCEPT !.empty = TRUE]
GoodEmail == <<"a", "@", "b", ".", "c", "o">>
RcpVals == {<<>>, <<" ">>, GoodEmail, <<" ">> \o GoodEmail, <<"+", "1", "2">>,
            <<"a", "b">>, <<"a", "@", "b">>, GoodEmail \o <<NL>>, <<"A", "@", "B", ".", "c", "o">>}
MsgVals == {<<>>, <<" ">>, <<NL>>, <<"h", "i">>}
NTypeVals == {<<>>, <<"email">>, <<"sms">>, <<"fax">>, <<" ", "sms">>, <<"sms", NL>>}
SubjVals == {NoSubj, Subj(<<>>), Subj(<<" ">>), Subj(<<"s">>)}
NTBodies ==
  {NullNTBody, EmptyNTBody, NTBody(TRUE, <<>>, <<"h", "i">>, <<"email">>, NoSubj)}
  \cup {NTBody(FALSE, r, m, t, s) : r \in RcpVals, m \in MsgVals, t \in NTypeVals, s \in SubjVals}
SampleNTBody == NTBody(FALSE, GoodEmail, <<"h", "i">>, <<"email">>, Subj(<<"s">>))

SnsRecs == {[wf |-> w, msg |-> m] : w \in BOOLEAN, m \in {"obj", "objempty", "num", "text"}}
NoneNTEvent == [none |-> TRUE, hasRecs |-> FALSE, recs |-> <<>>, hm |-> "absent", res |-> "absent", body |-> NullNTBody]
NTEvents ==
  {NoneNTEvent}
  \cup {[none |-> FALSE, hasRecs |-> r, recs |-> <<>>, hm |-> "POST", res |-> "/notify", body |-> b] :
          r \in BOOLEAN, b \in NTBodies}
  \cup {[none |-> FALSE, hasRecs |-> r, recs |-> <<>>, hm |-> m, res |-> x, body |-> SampleNTBody] :
          r \in BOOLEAN, m \in Methods, x \in Resources}
  \cup {[none |-> FALSE, hasRecs |-> TRUE, recs |-> rs, hm |-> m, res |-> "/notify", body |-> SampleNTBody] :
          rs \in RecSeqs(SnsRecs), m \in {"POST", "absent"}}

HCEvents ==
  {[none |-> TRUE, hm |-> "absent", res |-> "absent", qs |-> "absent"]}
  \cup {[none |-> FALSE, hm |-> m, res |-> x, qs |-> q] :
          m \in Methods, x \in Resources, q \in {"absent", "null", "details", "nodetails", "nondict"}}
RemainingVals == {0, 1, 30000, 30001, 120000, 299875, 299990, 299995, 600000}
\* raises: get_remaining_time_in_millis() raises
Contexts == {[hasRem |-> FALSE, rem |-> 0, raises |-> FALSE], [hasRem |-> TRUE, rem |-> 0, raises |-> TRUE]}
            \cup {[hasRem |-> TRUE, rem |-> r, raises |-> FALSE] : r \in RemainingVals}

\* store calls of one invocation: per record a put, an update to completed
\* and, when that update raises, an update to failed
MaxCalls == 3 * MaxRecs
\* {0}: client construction raises; otherwise any set of store calls raises
FaultChoices == {{0}} \cup SUBSET (1..MaxCalls)

\* ------------------------------------------------------------- state
\* store: status per record id; puts: put calls issued per id; users: ids
\* created through user_management; running: invocations in flight, each
\* with its handler's outcome o and the number pc of its store and publish
\* calls issued so far (every call is a separate request, so other
\* invocations interleave between them); inv, out: the invocation that
\* returned last and its result; nextId: the next fresh uuid4.
VARIABLES store, puts, users, running, inv, out, nextId
vars == <<store, puts, users, running, inv, out, nextId>>

\* invocations the runtime executes at the same time
MaxRunning == 2

NoOutcome == Outcome("none", Resp(0, "", NoPD, 0, NoNT), <<>>, 1, FALSE)

Init ==
  /\ store = [i \in 1..MaxId |-> "none"]
  /\ puts = [i \in 1..MaxId |-> 0]
  /\ users = {}
  /\ running = {}
  /\ inv = [h |-> "none", ev |-> 0, f |-> {}, pf |-> FALSE, ctx |-> 0, ef |-> FALSE]
  /\ out = NoOutcome
  /\ nextId = 1

\* a handler starts: it draws its uuid4 ids; its calls are issued by StoreCall
\* and its response is returned by Return
Invoke(h, ev, f, pf, ctx, ef, o) ==
  /\ o.nid - 1 <= MaxId
  /\ Cardinality(running) < MaxRunning
  /\ running' = running \cup {[inv |-> [h |-> h, ev |-> ev, f |-> f, pf |-> pf, ctx |-> ctx, ef |-> ef],
                               o |-> o, pc |-> 0]}
  /\ nextId' = o.nid
  /\ UNCHANGED <<store, puts, inv, out>>

\* an invocation in flight issues its next store or publish call
StoreCall ==
  \E r \in running :
    /\ r.pc < Len(r.o.calls)
    /\ store' = ApplyCall(store, r.o.calls[r.pc + 1])
    /\ puts' = CountPut(puts, r.o.calls[r.pc + 1])
    /\ running' = (running \ {r}) \cup {[r EXCEPT !.pc = @ + 1]}
    /\ UNCHANGED <<users, inv, out, nextId>>

\* an invocation whose calls are all issued returns its response
Return ==
  \E r \in running :
    /\ r.pc = Len(r.o.calls)
    /\ inv' = r.inv
    /\ out' = r.o
    /\ running' = running \ {r}
    /\ UNCHANGED <<store, puts, users, nextId>>

DataProcessor(E, F) ==
  \E ev \in E, f \in F :
    /\ Invoke("dp", ev, f, FALSE, 0, FALSE, DPHandler(ev, f, nextId))
    /\ UNCHANGED users

Notification(E, F) ==
  \E ev \in E, f \in F, pf \in BOOLEAN :
    /\ Invoke("nt", ev, f, pf, 0, FALSE, NTHandler(ev, f, pf, nextId))
    /\ UNCHANGED users

HealthCheck(E, C) ==
  \E ev \in E, ctx \in C, ef \in BOOLEAN :
    /\ Invoke("hc", ev, {}, FALSE, ctx, ef, HCHandler(ev, ctx, ef, nextId))
    /\ UNCHANGED users

\* one invocation of each handler from a fresh table
InvokeDataProcessor == inv.h = "none" /\ running = {} /\ DataProcessor(DPEvents, FaultChoices)
InvokeNotification == inv.h = "none" /\ running = {} /\ Notification(NTEvents, FaultChoices)
InvokeHealthCheck == inv.h = "none" /\ running = {} /\ HealthCheck(HCEvents, Contexts)

Next == InvokeDataProcessor \/ InvokeNotification \/ InvokeHealthCheck \/ StoreCall \/ Return

Spec == Init /\ [][Next]_vars

\* ------------------------------------ several invocations sharing the table
RunDPEvents ==
  {[none |-> FALSE, hasRecs |-> FALSE, recs |-> <<>>, hm |-> "POST", res |-> "/process", body |-> SampleDPBody],
   [none |-> FALSE, hasRecs |-> TRUE, recs |-> <<[wf |-> TRUE, head |-> "ok"]>>, hm |-> "absent", res |-> "absent", body |-> SampleDPBody],
   [none |-> FALSE, hasRecs |-> TRUE, recs |-> <<[wf |-> TRUE, head |-> "ok"], [wf |-> TRUE, head |-> "fail"]>>,
    hm |-> "absent", res |-> "absent", body |-> SampleDPBody]}
RunNTEvents ==
  {[none |-> FALSE, hasRecs |-> FALSE, recs |-> <<>>, hm |-> "POST", res |-> "/notify", body |-> SampleNTBody],
   [none |-> FALSE, hasRecs |-> TRUE, recs |-> <<[wf |-> TRUE, msg |-> "obj"]>>, hm |-> "absent", res |-> "absent", body |-> SampleNTBody]}
RunFaults == {{}, {2}}
UMEvents == {[op |-> "create", gid |-> 0]} \cup {[op |-> "get", gid |-> g] : g \in 0..MaxId}

\* each request makes at most one store call, so it is one step
UserManagement ==
  \E ev \in UMEvents :
    LET o == UMHandler(ev, users, nextId)
    IN /\ o.nid - 1 <= MaxId
       /\ inv' = [h |-> "um", ev |-> ev, f |-> {}, pf |-> FALSE, ctx |-> 0, ef |-> FALSE]
       /\ out' = o
       /\ store' = ApplyCalls(store, o.calls)
       /\ puts' = CountPuts(puts, o.calls)
       /\ nextId' = o.nid
       /\ users' = IF ev.op = "create" THEN users \cup {nextId} ELSE users
       /\ UNCHANGED running

RunDataProcessor == DataProcessor(RunDPEvents, RunFaults)
RunNotification == Notification(RunNTEvents, {{}, {1}})
RunUserManagement == UserManagement

NextRuns == RunDataProcessor \/ RunNotification \/ RunUserManagement \/ StoreCall \/ Return

SpecRuns == Init /\ [][NextRuns]_vars

\* ------------------------------------------------ the regex validators alone
MaxEmailLen == 7
EmailAlphabet == {"a", "B", "@", ".", NL}
EmailExamples == {<<"u", "s", "e", "r", "@", "e", "x", "a", "m", "p", "l", "e", ".", "c", "o", "m">>,
                  <<"i", "n", "v", "a", "l", "i", "d", "-", "e", "m", "a", "i", "l", "-",
                    "f", "o", "r", "m", "a", "t">>}
EmailStrs == UNION {[1..n -> EmailAlphabet] : n \in 0..MaxEmailLen} \cup EmailExamples

MaxPhoneDigits == 16
PhoneExamples == {<<"+", "1", "2", "3", "4", "5", "6", "7", "8", "9", "0">>,
                  <<"i", "n", "v", "a", "l", "i", "d", "-", "p", "h", "o", "n", "e">>}
PhoneStrs ==
  {pre \o <<d>> \o [i \in 1..n |-> "0"] \o suf :
     pre \in {<<>>, <<"+">>, <<"+", "+">>}, d \in {"0", "1", "a", "U+0661"},
     n \in 0..MaxPhoneDigits, suf \in {<<>>, <<NL>>, <<"a">>, <<"U+0662">>}}
  \cup {<<>>, <<"+">>} \cup PhoneExamples

NoInv == [h |-> "none", ev |-> 0, f |-> {}, pf |-> FALSE, ctx |-> 0, ef |-> FALSE]
Verdict(b) == [NoOutcome EXCEPT !.route = "validator", !.resp.code = IF b THEN 1 ELSE 0]

InitEmail ==
  /\ store = [i \in 1..MaxId |-> "none"] /\ puts = [i \in 1..MaxId |-> 0] /\ users = {}
  /\ running = {} /\ nextId = 1 /\ out = NoOutcome
  /\ \E s \in EmailStrs : inv = [NoInv EXCEPT !.h = "email", !.ev = s]
CheckEmail ==
  /\ inv.h = "email" /\ out.route = "none"
  /\ out' = Verdict(is_valid_email(inv.ev))
  /\ UNCHANGED <<store, puts, users, running, inv, nextId>>
SpecEmail == InitEmail /\ [][CheckEmail]_vars

InitPhone ==
  /\ store = [i \in 1..MaxId |-> "none"] /\ puts = [i \in 1..MaxId |-> 0] /\ users = {}
  /\ running = {} /\ nextId = 1 /\ out = NoOutcome
  /\ \E s \in PhoneStrs : inv = [NoInv EXCEPT !.h = "phone", !.ev = s]
CheckPhone ==
  /\ inv.h = "phone" /\ out.route = "none"
  /\ out' = Verdict(is_valid_phone(inv.ev))
  /\ UNCHANGED <<store, puts, users, running, inv, nextId>>
SpecPhone == InitPhone /\ [][CheckPhone]_vars

\* =============================================================== properties
Calls == out.calls
IsPut(c) == c.op = "put"
IsPublish(c) == c.op = "publish"
ApiDone(h) == inv.h = h /\ out.route = "api"
DPBody == parse_json_body(inv.ev.body)

\* the route the claims expect for a payload: batch, api, notfound, unknown
ExpectedRoute(h, ev) ==
  IF ev.hasRecs /\ Len(ev.recs) > 0 THEN "batch"
  ELSE IF ev.hm # "absent"
  THEN IF ev.hm = "POST" /\ ev.res = (IF h = "dp" THEN "/process" ELSE "/notify") THEN "api" ELSE "notfound"
  ELSE "unknown"

ClassifiedAsClaimed ==
  inv.h \in {"dp", "nt"} =>
    /\ out.route = ExpectedRoute(inv.h, inv.ev)
    /\ out.route = "notfound" => out.resp.code = 404 /\ out.resp.err = "Resource not found"
    /\ out.route = "unknown" => out.resp.code = 400 /\ out.resp.err = "Unknown event type"

\* C1 (original): every payload goes to exactly one of batch path, the single
\* route, 404 Resource not found or 400 Unknown event type, by Records /
\* httpMethod / (resource, method).
C1_Classification == ClassifiedAsClaimed

\* C1 (amended): the same holds for every payload that is an object, when the
\* clients are constructed without fault.
C1_ClassificationOfObjects ==
  (inv.h \in {"dp", "nt"} /\ ~inv.ev.none /\ 0 \notin inv.f) => ClassifiedAsClaimed

C1_Witness ==
  inv.h \in {"dp", "nt"} /\ inv.ev.hasRecs /\ inv.ev.recs = <<>> /\ out.route = "api"

\* C2: no handler re-raises; a fault in classification or dispatch not caught
\* deeper gives 500 Internal server error.
C2_NeverRaises ==
  inv.h \in {"dp", "nt", "hc"} =>
    /\ ~out.raised
    /\ out.route = "fault" => out.resp = Internal500

C2_Witness == inv.h = "dp" /\ inv.ev.none /\ out.route = "fault"

\* C3 (original): the health check raises when the event is None.
C3_HealthCheckRaisesOnNone == (inv.h = "hc" /\ inv.ev.none) => out.raised

\* C3 (amended): on a None event the health check returns 500 Internal server
\* error and does not raise.
C3_HealthCheckNoneGives500 ==
  (inv.h = "hc" /\ inv.ev.none) =>
    ~out.raised /\ out.resp.code = 500 /\ out.resp.err = "Internal server error"

C3_Witness == inv.h = "hc" /\ inv.ev.none /\ out.route = "fault"

ValidProcessBody(b) ==
  /\ ~b.null /\ b.hasData /\ b.data.k = "str" /\ ~AllBlank(b.data.s)
  /\ b.type \in {"absent", "text", "json", "csv", "xml", "binary"}

ProcessedAsClaimed ==
  /\ out.resp.code = 200
  /\ out.resp.pd.status = "processed"
  /\ out.resp.pd.type = (IF DPBody.type = "absent" THEN "text" ELSE DPBody.type)
  /\ out.resp.pd.size = Len(DPBody.data.s)
  /\ Calls # <<>> /\ out.resp.pd.id = Calls[1].id

\* C4 (original): a valid POST /process with a non-blank string gives 200 with
\* processed_data whose size is the length of the string.
C4_ValidProcess == (ApiDone("dp") /\ ValidProcessBody(DPBody)) => ProcessedAsClaimed

\* C4 (amended): the same, provided the state store's put and update succeed.
C4_ValidProcessStoreUp ==
  (ApiDone("dp") /\ ValidProcessBody(DPBody) /\ \A i \in 1..Len(Calls) : Calls[i].ok)
    => ProcessedAsClaimed

C4_Witness == ApiDone("dp") /\ out.resp.code = 200 /\ DPBody.data.k = "str" /\ DPBody.data.s = <<Space, "a", Space>>

\* C5: empty or whitespace-only string data gives 400 whatever the type.
C5_BlankDataRejected ==
  (ApiDone("dp") /\ ~DPBody.null /\ DPBody.hasData /\ DPBody.data.k = "str" /\ AllBlank(DPBody.data.s))
    => out.resp.code = 400

C5_Witness ==
  ApiDone("dp") /\ DPBody.hasData /\ DPBody.data.s = <<Space, NL>> /\ DPBody.type = "text"
  /\ out.resp.code = 400

TypeListed == "Invalid data type. Must be one of: text, json, csv, xml, binary"
BadDPType == DPBody.type \notin {"absent", "text", "json", "csv", "xml", "binary"}

\* C6 (original): non-empty data with a type outside the set gives 400 with a
\* message listing exactly the valid set.
C6_InvalidTypeListed ==
  (ApiDone("dp") /\ ~DPBody.null /\ DPBody.hasData /\ Truthy(DPBody.data) /\ BadDPType)
    => out.resp.code = 400 /\ out.resp.err = TypeListed

\* C6 (amended): the same for data that passes the emptiness check (truthy and,
\* for a string, not whitespace-only).
C6_InvalidTypeListedNonBlank ==
  (ApiDone("dp") /\ ~DPBody.null /\ DPBody.hasData /\ Truthy(DPBody.data)
   /\ ~(DPBody.data.k = "str" /\ AllBlank(DPBody.data.s)) /\ BadDPType)
    => out.resp.code = 400 /\ out.resp.err = TypeListed

C6_Witness == ApiDone("dp") /\ BadDPType /\ DPBody.data.k = "list" /\ out.resp.code = 400

\* C7: a null body (either route) or a /process body without 'data' gives 400
\* with an error and no store call.
C7_MissingBodyRejected ==
  (ApiDone("dp") /\ (inv.ev.body.null \/ ~inv.ev.body.hasData)) \/ (ApiDone("nt") /\ inv.ev.body.null)
    => out.resp.code = 400 /\ out.resp.err # "" /\ Calls = <<>>

C7_Witness == ApiDone("dp") /\ ~inv.ev.body.null /\ ~inv.ev.body.hasData /\ out.resp.code = 400

\* C8: every API request answered with 400 made no put, update or publish call.
C8_ValidationBeforeMutation ==
  (inv.h \in {"dp", "nt"} /\ out.route = "api" /\ out.resp.code = 400) => Calls = <<>>

C8_Witness == ApiDone("dp") /\ out.resp.err = TypeListed

\* C9: a 200 from POST /process follows exactly one put of a queued record with
\* the raw data and one update of that id to completed with the summary.
C9_QueuedThenCompleted ==
  (ApiDone("dp") /\ out.resp.code = 200) =>
    /\ Len(Calls) = 2
    /\ Calls[1].op = "put" /\ Calls[1].st = "queued" /\ Calls[1].ok /\ Calls[1].data = DPBody.data
    /\ Calls[2].op = "update" /\ Calls[2].st = "completed" /\ Calls[2].ok /\ Calls[2].id = Calls[1].id
    /\ Calls[2].result.kind = (CASE DPBody.data.k = "str" -> "original_length"
                                 [] DPBody.data.k = "dict" -> "key_count"
                                 [] DPBody.data.k = "list" -> "item_count"
                                 [] OTHER -> "data_type")
    /\ DPBody.data.k = "str" => Calls[2].result.a = Len(DPBody.data.s)

C9_Witness == ApiDone("dp") /\ out.resp.code = 200 /\ DPBody.data.s = <<Space, "a">>

\* C10: a store fault during a synchronous API step gives 500 with the generic
\* message of the route.
C10_StoreFaultAborts ==
  ((ApiDone("dp") \/ ApiDone("nt")) /\ \E i \in 1..Len(Calls) : Calls[i].op \in {"put", "update"} /\ ~Calls[i].ok)
    => /\ out.resp.code = 500
       /\ out.resp.err = (IF inv.h = "dp" THEN "Failed to process data" ELSE "Failed to send notification")

C10_Witness == ApiDone("nt") /\ out.resp.code = 500 /\ Len(Calls) = 1

BatchDone(h) == inv.h = h /\ out.route = "batch"
Puts == SelectSeq(Calls, IsPut)
NumWellFormed(recs) == Cardinality({i \in 1..Len(recs) : recs[i].wf})

\* C11: in an S3 batch every record is attempted in order, the response is 200
\* and processed_records = N - number of failing records.
C11_PartialFailureIsolation ==
  BatchDone("dp") =>
    /\ out.resp.code = 200
    /\ Len(Puts) = Len(inv.ev.recs)
    /\ out.resp.cnt = Len(inv.ev.recs)
                      - Cardinality({i \in 1..Len(inv.ev.recs) :
                           ~inv.ev.recs[i].wf \/ inv.ev.recs[i].head = "fail"
                           \/ \E k \in 1..Len(Calls) : Calls[k].id = Puts[i].id /\ ~Calls[k].ok})

\* the successful store writes of one job id, in order
IsOk(c) == c.ok
OkWrites(id) == SelectSeq(SelectSeq(Calls, IsOk), LAMBDA c : c.id = id)
BatchIds == {Puts[i].id : i \in 1..Len(Puts)}

C13_PutOnceThenUpdates ==
  /\ \A i \in 1..MaxId : puts[i] <= 1
  /\ \A k \in 1..Len(Calls) :
       (Calls[k].op = "update" /\ Calls[k].ok) =>
         \E j \in 1..(k - 1) : Calls[j].op = "put" /\ Calls[j].ok /\ Calls[j].id = Calls[k].id

NTB == inv.ev.body
NtR == Strip(NTB.rcp)
NtM == Strip(NTB.msg)
NtT == Strip(NTB.typ)
NTInvalid ==
  \/ NtR = <<>> \/ NtM = <<>> \/ NtT = <<>>
  \/ NtT \notin {<<"email">>, <<"sms">>}
  \/ (NtT = <<"email">> /\ ~is_valid_email(NtR))
  \/ (NtT = <<"sms">> /\ ~is_valid_phone(NtR))

\* C14: missing/empty recipient, message or type, a type outside
\* {email, sms} or a recipient of the wrong format gives 400 before any record
\* or send.
C14_NotifyValidation ==
  (ApiDone("nt") /\ ~NTB.null /\ ~NTB.empty /\ NTInvalid) => out.resp.code = 400 /\ Calls = <<>>

NTValid == ApiDone("nt") /\ ~NTB.null /\ ~NTB.empty /\ ~NTB.rnum /\ ~NTInvalid


\* the subject is supplied: the key is present with a non-empty string
SubjectSupplied == NTB.subjKey /\ NTB.subj # <<>>

\* the publish call the spec makes reports success iff the messaging
\* collaborator works
NotifiedAsClaimed ==
  /\ out.resp.code = 200
  /\ out.resp.nt.recipient = NtR /\ out.resp.nt.type = NtT
  /\ out.resp.nt.hasSubject = SubjectSupplied
  /\ (out.resp.nt.status = "sent") = ~inv.pf
  /\ out.resp.nt.status \in {"sent", "failed"}
  /\ Len(Puts) = 1 /\ Puts[1].st = out.resp.nt.status /\ Puts[1].id = out.resp.nt.id
  /\ (Puts[1].result = ErrResult) = (out.resp.nt.status = "failed")

\* C15: a valid POST /notify (with a working state store) gives 200 {id,
\* recipient, type, status}, plus subject iff supplied, whether or not the
\* send succeeds; status is sent iff the publish reports success; one record
\* is put with the final status, with an error iff the send failed.
C15_NotifyOutcome == (NTValid /\ \A k \in 1..Len(Calls) : Calls[k].op # "put" \/ Calls[k].ok) => NotifiedAsClaimed

TestEmailBody == NTBody(FALSE, GoodEmail, <<"h", "i">>, <<"email">>, Subj(<<"s">>))

\* C16: POST /notify {recipient, message, type: email, subject} with a working
\* messaging collaborator gives 200, status sent and an id.
C16_EmailScenario ==
  (ApiDone("nt") /\ NTB = TestEmailBody /\ ~inv.pf /\ inv.f = {})
    => out.resp.code = 200 /\ out.resp.nt.status = "sent" /\ out.resp.nt.id > 0

\* C17: every valid POST /notify makes exactly one publish call tagged with the
\* request type.
C17_OnePublishTagged ==
  NTValid =>
    /\ Len(SelectSeq(Calls, IsPublish)) = 1
    /\ SelectSeq(Calls, IsPublish)[1].st = (IF NtT = <<"email">> THEN "email" ELSE "sms")

\* C18: with a faulting messaging collaborator (and a working store) POST
\* /notify still gives 200 with status failed.
C18_PublishFaultIsNotHttpError ==
  (NTValid /\ inv.pf /\ inv.f = {}) => out.resp.code = 200 /\ out.resp.nt.status = "failed"

C18_Witness == NTValid /\ inv.pf /\ inv.f = {} /\ out.resp.code = 200 /\ NtT = <<"email">>

IsUpdate(c) == c.op = "update"

\* C19: each SNS message is put as received and then updated to processed; a
\* faulting record is skipped; the response is 200 with the number of records
\* that reached processed.
C19_SnsReceivedThenProcessed ==
  BatchDone("nt") =>
    /\ out.resp.code = 200
    /\ Len(Puts) = NumWellFormed(inv.ev.recs)
    /\ \A i \in 1..Len(Puts) : Puts[i].st = "received"
    /\ \A k \in 1..Len(Calls) :
         Calls[k].op = "update" =>
           /\ Calls[k].st = "processed"
           /\ \E j \in 1..(k - 1) : Calls[j].op = "put" /\ Calls[j].ok /\ Calls[j].id = Calls[k].id
    /\ out.resp.cnt = Cardinality({k \in 1..Len(Calls) : Calls[k].op = "update" /\ Calls[k].ok})

C19_Witness == BatchDone("nt") /\ Len(inv.ev.recs) = 2 /\ out.resp.cnt = 1 /\ NumWellFormed(inv.ev.recs) = 2

WellFormedRecs == SelectSeq(inv.ev.recs, LAMBDA r : r.wf)

\* C20: recipient/type of each SNS record come from a JSON object body
\* (defaults unknown/sns for missing keys) and are unknown/sns when the body is
\* not JSON; a parse failure never skips the record.
C20_SnsParseDefaults ==
  BatchDone("nt") =>
    /\ Len(Puts) = Len(WellFormedRecs)
    /\ \A i \in 1..Len(Puts) :
         /\ WellFormedRecs[i].msg = "obj" =>
              Puts[i].rcp = <<"r", "@", "x", ".", "i", "o">> /\ Puts[i].typ = <<"email">>
         /\ WellFormedRecs[i].msg \in {"objempty", "text"} =>
              Puts[i].rcp = <<"unknown">> /\ Puts[i].typ = <<"sns">>

C20_Witness == BatchDone("nt") /\ Len(Puts) = 2 /\ WellFormedRecs[1].msg = "text" /\ WellFormedRecs[2].msg = "objempty"

\* the shape local@domain.tld described by the claim
ClaimEmailShape(x) ==
  \E a \in 1..Len(x), d \in 1..Len(x) :
    LET local == SubSeq(x, 1, a - 1)
        dom   == SubSeq(x, a + 1, d - 1)
        tld   == SubSeq(x, d + 1, Len(x))
    IN /\ x[a] = "@" /\ x[d] = "."
       /\ Len(local) >= 1 /\ Len(dom) >= 1 /\ Len(tld) >= 2
       /\ \A k \in 1..Len(local) : local[k] \in Letters \cup AsciiDigits \cup {".", "_", "%", "+", "-"}
       /\ \A k \in 1..Len(dom) : dom[k] \in Letters \cup AsciiDigits \cup {".", "-"}
       /\ \A k \in 1..Len(tld) : tld[k] \in Letters

\* C21: is_valid_email accepts exactly the strings of shape local@domain.tld.
C21_EmailExactShape ==
  (inv.h = "email" /\ out.route = "validator") => ((out.resp.code = 1) <=> ClaimEmailShape(inv.ev))

\* optional '+', then 2 to 15 digits, the first one 1-9
ClaimPhoneShape(x) ==
  LET p == IF x # <<>> /\ x[1] = "+" THEN SubSeq(x, 2, Len(x)) ELSE x
  IN /\ 2 <= Len(p) /\ Len(p) <= 15
     /\ p[1] \in {"1", "2", "3", "4", "5", "6", "7", "8", "9"}
     /\ \A k \in 1..Len(p) : p[k] \in AsciiDigits

\* C22: is_valid_phone accepts exactly an optional '+' and 2-15 digits whose
\* first digit is 1-9.
C22_PhoneExactShape ==
  (inv.h = "phone" /\ out.route = "validator") => ((out.resp.code = 1) <=> ClaimPhoneShape(inv.ev))

HealthRoute == inv.ev.res = "/health" /\ inv.ev.hm = "GET"

\* C23: GET /health gives 200 healthy; every other (resource, method) pair gives
\* 404 Resource not found.
C23_HealthRouting ==
  (inv.h = "hc" /\ ~inv.ev.none) =>
    IF HealthRoute THEN out.resp.code = 200 /\ out.route = "api"
    ELSE out.resp.code = 404 /\ out.resp.err = "Resource not found"

\* C24: with details=true the details are included; if an enrichment value
\* raises, details are omitted and the base 200 response is still returned.
C24_EnrichmentBestEffort ==
  (inv.h = "hc" /\ ~inv.ev.none /\ HealthRoute) =>
    /\ out.resp.code = 200
    /\ out.resp.det = (inv.ev.qs = "details" /\ ~inv.ef)

\* C25 (original): uptime = (300000 - remaining_ms) / 1000 s, remaining_ms
\* defaulting to 30000 when the context has no get_remaining_time_in_millis.
C25_UptimeFromRemainingTime ==
  (inv.h = "hc" /\ out.resp.code = 200) =>
    out.resp.upt * 10 = 300000 - (IF inv.ctx.hasRem THEN inv.ctx.rem ELSE 30000)

\* C25 (amended): the reported uptime is that value rounded to a hundredth of
\* a second: within half a hundredth of it, and equal to it when
\* remaining_ms is a multiple of 10.
C25_UptimeRoundedFromRemainingTime ==
  (inv.h = "hc" /\ out.resp.code = 200) =>
    LET x == 300000 - (IF inv.ctx.hasRem THEN inv.ctx.rem ELSE 30000)
        d == out.resp.upt * 10 - x
    IN /\ -5 <= d /\ d <= 5
       /\ x % 10 = 0 => d = 0

C25_Witness == inv.h = "hc" /\ out.resp.code = 200 /\ inv.ctx.hasRem /\ inv.ctx.rem = 299995 /\ out.resp.upt = 1

FirstMalformed(recs) == CHOOSE i \in 1..Len(recs) : ~recs[i].wf /\ \A j \in 1..(i - 1) : recs[j].wf

\* C27: a record lacking bucket name, object key or eventName makes the batch
\* return 500 Failed to process S3 event; no later record is attempted.
C27_MalformedRecordAbortsBatch ==
  (BatchDone("dp") /\ \E i \in 1..Len(inv.ev.recs) : ~inv.ev.recs[i].wf) =>
    /\ out.resp.code = 500 /\ out.resp.err = "Failed to process S3 event"
    /\ Len(Puts) <= FirstMalformed(inv.ev.recs) - 1

C27_Witness == BatchDone("dp") /\ Len(inv.ev.recs) = 2 /\ ~inv.ev.recs[2].wf /\ Len(Puts) = 1 /\ out.resp.code = 500

\* C28: if the update marking a record failed raises, the remaining records are
\* not attempted and the invocation returns 500.
C28_FailedUpdateFaultAbortsBatch ==
  (BatchDone("dp") /\ \E k \in 1..Len(Calls) : Calls[k].st = "failed" /\ ~Calls[k].ok) =>
    /\ out.resp.code = 500 /\ out.resp.err = "Failed to process S3 event"
    /\ Calls[Len(Calls)].st = "failed" /\ ~Calls[Len(Calls)].ok

C28_Witness ==
  BatchDone("dp") /\ Len(inv.ev.recs) = 2 /\ Len(Puts) = 1 /\ Calls[Len(Calls)].st = "failed"
  /\ ~Calls[Len(Calls)].ok

ProcessFaultGives500 ==
  (ApiDone("dp") /\ \E k \in 1..Len(Calls) : Calls[k].op = "update" /\ ~Calls[k].ok) =>
    /\ out.resp.code = 500
    /\ \A k \in 1..Len(Calls) : Calls[k].st # "failed"

\* ids an invocation in flight writes
InFlightIds == UNION {{r.o.calls[k].id : k \in 1..Len(r.o.calls)} : r \in running}

QueuedStays == \A i \in 1..MaxId : (store[i] = "queued" /\ i \notin InFlightIds) => store'[i] = "queued"

\* C29: on POST /process a raising completion update gives 500, no failed
\* status is written, and the record stays queued under every later operation.
C29_QueuedForever == [](ProcessFaultGives500) /\ [][QueuedStays]_vars

C29_Witness == \E i \in 1..MaxId : store[i] = "queued" /\ i \notin InFlightIds /\ nextId > i + 1

\* C30: over any sequence of invocations no two put calls use the same id.
C30_FreshIdPerPut == \A i \in 1..MaxId : puts[i] <= 1

C30_Witness == \A i \in 1..MaxId : puts[i] = 1

====
